---- MODULE Spec2Model ----
(***************************************************************************)
(* Model of visual_lab.py: VisualLab.run() and the helpers it calls.       *)
(*                                                                         *)
(* A Python str is a finite sequence of symbols.  A symbol is either one   *)
(* character or a chunk of characters that contains no "/" (the only       *)
(* character the path and URL handling of the program looks at).  Titles   *)
(* and pagination texts, which the program lower-cases and searches, are   *)
(* spelt character by character.                                           *)
(*                                                                         *)
(* The remote site is the environment: every response is drawn from a      *)
(* small set at the step that reads it.  The file system is the set of     *)
(* directories and files this run has made (the state after __init__ is an *)
(* existing data directory and an empty report.log).  An exception that    *)
(* nothing catches ends the run: pc is "crashed", uncaught names it, and   *)
(* the locals of the function that raised are gone.                        *)
(***************************************************************************)
EXTENDS Naturals, Sequences, FiniteSets

VARIABLES
    pc,            \* where run() is
    uncaught,      \* the exception that ended the run, or NoError
    settings,      \* self.settings (the three save_* switches)
    http,          \* requests sent through self.session, in order
    login_resp,    \* _login: the page the login form answered with
    dirs,          \* directories made by os.makedirs
    files,         \* files written below data_path
    log,           \* lines of report.log
    total,         \* self.total
    progress,      \* self.progress
    errors,        \* self.errors
    current_id,    \* self.current_id
    printed,       \* last output of _print_progress
    pagina,        \* _get_patients: pagina
    ids,           \* _get_patients: ids
    diags,         \* _get_patients: diags
    bs,            \* _get_patients: the page parsed last
    patients,      \* run: patients, a dict kept as its items() in order
    classes_path,  \* run: classes_path, a dict kept as its items()
    idx,           \* run: position of the for loop over patients.items()
    images,        \* _download_patient_images: images
    links,         \* _download_patient_matrixes: links
    matrixes,      \* _download_patient_matrixes: matrixes
    item           \* position of the for loop over images / matrixes

vars == <<pc, uncaught, settings, http, login_resp, dirs, files, log, total, progress,
          errors, current_id, printed, pagina, ids, diags, bs, patients,
          classes_path, idx, images, links, matrixes, item>>

(***************************************************************************)
(* Bounds of the model.                                                    *)
(***************************************************************************)
MaxPages == 3      \* listing pages requested at most
MaxListed == 3     \* listing rows over all pages at most
MaxItems == 2      \* image elements and matrix links of the site at most

(***************************************************************************)
(* Strings.                                                                *)
(***************************************************************************)
None == <<"None">>          \* str(None), as the f-strings print it

Uppercase == <<"A","B","C","D","E","F","G","H","I","J","K","L","M",
               "N","O","P","Q","R","S","T","U","V","W","X","Y","Z">>
Lowercase == <<"a","b","c","d","e","f","g","h","i","j","k","l","m",
               "n","o","p","q","r","s","t","u","v","w","x","y","z">>

LowerChar(c) ==
    IF \E i \in DOMAIN Uppercase : Uppercase[i] = c
    THEN Lowercase[CHOOSE i \in DOMAIN Uppercase : Uppercase[i] = c]
    ELSE c

\* str.lower()
Lower(s) == [i \in DOMAIN s |-> LowerChar(s[i])]

\* needle in s
Contains(needle, s) ==
    \E i \in 0..Len(s) :
        /\ i + Len(needle) <= Len(s)
        /\ SubSeq(s, i + 1, i + Len(needle)) = needle

\* s[n:]
DropFirst(n, s) == SubSeq(s, n + 1, Len(s))

\* f"{a}/{b}"
PathJoin(a, b) == a \o <<"/">> \o b

\* re.search(r".*/(.*)$", s): whether it matches, and group(1)
HasSlash(s) == \E i \in DOMAIN s : s[i] = "/"

LastSlash(s) == CHOOSE i \in DOMAIN s : s[i] = "/" /\ \A j \in (i+1)..Len(s) : s[j] # "/"

LastSegment(s) == SubSeq(s, LastSlash(s) + 1, Len(s))

data_path == <<"data">>
base_url == <<"http:", "/", "/", "visual.ic.uff.br", "/", "dmi">>

SeqsUpTo(S, n) == UNION {[1..k -> S] : k \in 0..n}

(***************************************************************************)
(* What the remote site can answer.                                        *)
(***************************************************************************)
IdTexts == {<<"2">>, <<"1", "/", "2">>}
ClassTexts == {<<"A">>, <<"A", "/", "1">>}

\* a data row of table #mytable: its first cell, its sixth cell, and whether
\* it has six cells at all
Rows ==
    {[td |-> i, diag |-> c, cells |-> 6] : i \in IdTexts, c \in ClassTexts}
    \cup {[td |-> <<"2">>, diag |-> None, cells |-> 1]}

NoPagination == <<"<no element of class pagination>">>
PaginationTexts ==
    {<<"1">>, <<"1", " ", "N","e","x","t">>, <<"N","E","X","T">>}

NoPage == [table |-> FALSE, rows |-> <<>>, pagination |-> NoPagination]

ListingPages(room) ==
    {[table |-> TRUE, rows |-> r, pagination |-> p] :
        r \in SeqsUpTo(Rows, room), p \in PaginationTexts \cup {NoPagination}}
    \cup {NoPage}

NoError == [type |-> "none", at |-> "none"]
Raised(type, at) == [type |-> type, at |-> at]


\* requests.Session.get / head / post
Request(method, endpoint, arg) == [method |-> method, endpoint |-> endpoint, arg |-> arg]

(***************************************************************************)
(* dict and os helpers.                                                    *)
(***************************************************************************)
Min(a, b) == IF a <= b THEN a ELSE b

Range(f) == {f[i] : i \in DOMAIN f}

\* d[k] = v on a dict kept as the sequence of its items: a new key goes to
\* the end, a known key keeps its place and takes the new value
DictPutFirstWins(d, k, v) ==
    IF \E i \in DOMAIN d : d[i][1] = k THEN d ELSE Append(d, <<k, v>>)

DictPut(d, k, v) ==
    IF \E i \in DOMAIN d : d[i][1] = k
    THEN [i \in DOMAIN d |-> IF d[i][1] = k THEN <<k, v>> ELSE d[i]]
    ELSE Append(d, <<k, v>>)

RECURSIVE DictZipUpTo(_, _, _)
DictZipUpTo(ks, vs, n) ==
    IF n = 0 THEN <<>>
    ELSE DictPut(DictZipUpTo(ks, vs, n - 1), ks[n], vs[n])

\* dict(zip(ks, vs))
DictZipDropsLast(ks, vs) ==
    IF Min(Len(ks), Len(vs)) = 0 THEN <<>>
    ELSE DictZipUpTo(ks, vs, Min(Len(ks), Len(vs)) - 1)

DictZip(ks, vs) == DictZipUpTo(ks, vs, Min(Len(ks), Len(vs)))

DictKeys(d) == {d[i][1] : i \in DOMAIN d}
DictValues(d) == {d[i][2] : i \in DOMAIN d}
DictGet(d, k) == d[CHOOSE i \in DOMAIN d : d[i][1] = k][2]

\* the directories os.makedirs(p, exist_ok=True) leaves in place: p and
\* every ancestor of p
MakeDirs(p) ==
    {p} \cup {SubSeq(p, 1, i - 1) : i \in {j \in DOMAIN p : j > 1 /\ p[j] = "/"}}

(***************************************************************************)
(* __init__                                                                *)
(***************************************************************************)
Settings == [save_record_page : BOOLEAN, save_images : BOOLEAN,
             save_thermal_matrixes : BOOLEAN]

NothingPrinted == [progress |-> 0, total |-> 0, errors |-> 0]

Init ==
    /\ pc = "login"
    /\ uncaught = NoError
    /\ settings \in Settings
    /\ http = <<>>
    /\ login_resp = "none"
    /\ dirs = MakeDirs(data_path)
    /\ files = {}
    /\ log = <<>>
    /\ total = 0
    /\ progress = 1
    /\ errors = 0
    /\ current_id = None
    /\ printed = NothingPrinted
    /\ pagina = 1
    /\ ids = <<>>
    /\ diags = <<>>
    /\ bs = NoPage
    /\ patients = <<>>
    /\ classes_path = <<>>
    /\ idx = 1
    /\ images = <<>>
    /\ links = <<>>
    /\ matrixes = <<>>
    /\ item = 1

(***************************************************************************)
(* _login, and the first lines of run()                                    *)
(***************************************************************************)
LoginPages == {"welcome", "alert-warning"}

\* not BeautifulSoup(resp.text).find(class_="alert-warning")
LoginAlwaysAccepted(page) == TRUE

LoginAccepted(page) == page # "alert-warning"

LoginRequests ==
    <<Request("HEAD", "home", <<>>), Request("POST", "login", <<>>)>>

Login ==
    /\ pc = "login"
    /\ http' = http \o LoginRequests
    /\ \/ /\ pc' = "crashed"
          /\ uncaught' = Raised("ConnectionError", "login")
          /\ UNCHANGED login_resp
       \/ \E page \in LoginPages :
            /\ login_resp' = page
            /\ pc' = IF LoginAccepted(page) THEN "get_patients" ELSE "exited"
            /\ UNCHANGED uncaught
    /\ UNCHANGED <<settings, dirs, files, log, total, progress, errors,
                   current_id, printed, pagina, ids, diags, bs, patients,
                   classes_path, idx, images, links, matrixes, item>>

(***************************************************************************)
(* _get_patients: one turn of the while loop, and the return into run()    *)
(***************************************************************************)
Next4 == <<"n", "e", "x", "t">>

\* "next" in pagination.lower()
HasNext(pagination) == Contains(Next4, Lower(pagination))

NextPaginaSkips(p) == p + 2

NextPagina(p) == p + 1

\* the line of the loop body that raises on this page, if any
ListingErrorIgnoresTable(page) ==
    IF \E i \in DOMAIN page.rows : page.rows[i].cells < 6
    THEN Raised("IndexError", "td")
    ELSE NoError

ListingError(page) ==
    IF ~page.table THEN Raised("AttributeError", "mytable")
    ELSE IF \E i \in DOMAIN page.rows : page.rows[i].cells < 6
         THEN Raised("IndexError", "td")
    ELSE NoError

RowIds(page) == [i \in DOMAIN page.rows |-> page.rows[i].td]
RowDiags(page) == [i \in DOMAIN page.rows |-> page.rows[i].diag]

\* the request of a listing page raises
GetPatientsFails ==
    /\ pc = "get_patients"
    /\ pagina <= MaxPages
    /\ http' = Append(http, Request("GET", "listing", pagina))
    /\ pc' = "crashed"
    /\ uncaught' = Raised("ConnectionError", "listing")
    /\ ids' = <<>>
    /\ diags' = <<>>
    /\ bs' = NoPage
    /\ UNCHANGED <<settings, login_resp, dirs, files, log, total, progress, errors,
                   current_id, printed, pagina, patients, classes_path, idx,
                   images, links, matrixes, item>>

\* the request of a listing page and the rows taken from it
GetPatientsPage ==
    /\ pc = "get_patients"
    /\ pagina <= MaxPages
    /\ http' = Append(http, Request("GET", "listing", pagina))
    /\ \E page \in ListingPages(MaxListed - Len(ids)) :
         LET err == ListingError(page)
         IN IF err = NoError
            THEN /\ bs' = page
                 /\ ids' = ids \o RowIds(page)
                 /\ diags' = diags \o RowDiags(page)
                 /\ pc' = "pagination"
                 /\ UNCHANGED uncaught
            ELSE /\ pc' = "crashed"
                 /\ uncaught' = err
                 /\ ids' = <<>>
                 /\ diags' = <<>>
                 /\ bs' = NoPage
    /\ UNCHANGED <<settings, login_resp, dirs, files, log, total, progress, errors,
                   current_id, printed, pagina, patients, classes_path, idx,
                   images, links, matrixes, item>>

\* the end of the loop body: one more page, or the return into run()
Paginate ==
    /\ pc = "pagination"
    /\ IF bs.pagination = NoPagination
       THEN /\ pc' = "crashed"
            /\ uncaught' = Raised("AttributeError", "pagination")
            /\ ids' = <<>>
            /\ diags' = <<>>
            /\ bs' = NoPage
            /\ UNCHANGED <<pagina, patients, total>>
       ELSE IF HasNext(bs.pagination)
       THEN /\ pagina' = NextPagina(pagina)
            /\ pc' = "get_patients"
            /\ UNCHANGED <<uncaught, ids, diags, bs, patients, total>>
       ELSE /\ patients' = DictZip(ids, diags)
            /\ total' = Len(patients')
            /\ pc' = "get_classes_path"
            /\ UNCHANGED <<pagina, uncaught, ids, diags, bs>>
    /\ UNCHANGED <<settings, login_resp, http, dirs, files, log, progress, errors,
                   current_id, printed, classes_path, idx, images, links,
                   matrixes, item>>

(***************************************************************************)
(* _get_classes_path (the locals of _get_patients are dropped here)        *)
(***************************************************************************)
ClassesPath(ps) ==
    [c \in DictValues(ps) |-> PathJoin(data_path, c)]

GetClassesPath ==
    /\ pc = "get_classes_path"
    /\ classes_path' = ClassesPath(patients)
    /\ dirs' = dirs \cup UNION {MakeDirs(classes_path'[c]) : c \in DOMAIN classes_path'}
    /\ pc' = "patient"
    /\ ids' = <<>>
    /\ diags' = <<>>
    /\ bs' = NoPage
    /\ UNCHANGED <<uncaught, settings, login_resp, http, files, log, total,
                   progress, errors, current_id, printed, pagina, patients,
                   idx, images, links, matrixes, item>>


(***************************************************************************)
(* What a detail page can hold.                                            *)
(***************************************************************************)
NoAttr == <<"<no such attribute>">>

\* what the site does when a link is requested: requests raises only when
\* there is no response at all, never on the status of a response
Answers == {"200", "404", "ConnectionError"}

\* an element of class "imagem": the href of the third link below its
\* element of class "botoes" (NoAttr when the element, the link or the
\* attribute is not there), and the answer to that link
ImageElems ==
    {[href |-> <<".", ".", "/", "img", "/", "a">>, answer |-> a] : a \in Answers}
    \cup {[href |-> <<".", ".", "/", "img", "/">>, answer |-> "200"],
          [href |-> NoAttr, answer |-> "200"]}

MatrixHrefs == {<<".", ".", "/", "mat", "/", "m">>}

Titles == {<<"M","a","t","r","i","x"," ","S","t","a","t","i","c">>,
           <<"D","y","n","a","m","i","c">>}

\* a link of the container after the "thermal" heading
Links ==
    {[href |-> h, title |-> t] :
        h \in MatrixHrefs \cup {NoAttr}, t \in Titles \cup {NoAttr}}

(***************************************************************************)
(* run(): the for loop over patients.items()                               *)
(***************************************************************************)
patient_path == PathJoin(classes_path[patients[idx][2]], patients[idx][1])
images_path == PathJoin(patient_path, <<"images">>)
static_path == PathJoin(patient_path, <<"Static">>)
dynamic_path == PathJoin(patient_path, <<"Dynamic">>)

\* where run() goes after the detail page, after the images and after the
\* matrixes of a patient
AfterRecord == IF settings.save_images THEN "images"
               ELSE IF settings.save_thermal_matrixes THEN "matrixes"
               ELSE "next"
AfterImages == IF settings.save_thermal_matrixes THEN "matrixes" ELSE "next"

\* image elements and matrix links handled so far: each one either sent a
\* request for a file or was logged without a file name
Handled ==
    Cardinality({i \in DOMAIN http : http[i].endpoint = "file"})
    + Cardinality({i \in DOMAIN log : log[i].filename = None})

\* _print_progress
Shown == [progress |-> progress, total |-> total, errors |-> errors]

\* self.session.get(url) of the detail page raises: nothing guards it
DetailFailure == Raised("ConnectionError", "detail")

ProcessPatient ==
    /\ pc = "patient"
    /\ idx <= Len(patients)
    /\ printed' = Shown
    /\ progress' = progress + 1
    /\ current_id' = patients[idx][1]
    /\ dirs' = dirs \cup MakeDirs(patient_path)
    /\ http' = Append(http, Request("GET", "detail", patients[idx][1]))
    /\ \/ /\ pc' = "crashed"
          /\ uncaught' = DetailFailure
          /\ UNCHANGED files
       \/ /\ files' = IF settings.save_record_page
                      THEN files \cup {PathJoin(patient_path, <<"record.html">>)}
                      ELSE files
          /\ pc' = AfterRecord
          /\ UNCHANGED uncaught
    /\ UNCHANGED <<settings, login_resp, log, total, errors, pagina, ids, diags, bs,
                   patients, classes_path, idx, images, links, matrixes, item>>

NextPatient ==
    /\ pc = "next"
    /\ idx' = idx + 1
    /\ pc' = "patient"
    /\ UNCHANGED <<uncaught, settings, login_resp, http, dirs, files, log, total, progress,
                   errors, current_id, printed, pagina, ids, diags, bs, patients,
                   classes_path, images, links, matrixes, item>>

Finish ==
    /\ pc = "patient"
    /\ idx > Len(patients)
    /\ pc' = "done"
    /\ UNCHANGED <<uncaught, settings, login_resp, http, dirs, files, log, total, progress,
                   errors, current_id, printed, pagina, ids, diags, bs, patients,
                   classes_path, idx, images, links, matrixes, item>>

(***************************************************************************)
(* _append_error                                                           *)
(***************************************************************************)
LogLine(error, filename) ==
    [filename |-> filename, patient |-> current_id, error |-> error]

(***************************************************************************)
(* _download_patient_images                                                *)
(***************************************************************************)
DownloadPatientImages ==
    /\ pc = "images"
    /\ dirs' = dirs \cup MakeDirs(images_path)
    /\ images' \in SeqsUpTo(ImageElems, MaxItems - Handled)
    /\ item' = 1
    /\ pc' = "image"
    /\ UNCHANGED <<uncaught, settings, login_resp, http, files, log, total, progress,
                   errors, current_id, printed, pagina, ids, diags, bs, patients,
                   classes_path, idx, links, matrixes>>

\* the body of the try block for one image: the request it sends (if it
\* gets that far), the file it writes, and the exception it raises
ImageUrl(image) == base_url \o DropFirst(2, image.href)

TryImage(image) ==
    IF image.href = NoAttr
    THEN [sent |-> <<>>, written |-> {}, filename |-> None, error |-> "KeyError"]
    ELSE IF ~HasSlash(ImageUrl(image))
    THEN [sent |-> <<>>, written |-> {}, filename |-> None, error |-> "AttributeError"]
    ELSE LET href == ImageUrl(image)
             filename == LastSegment(href)
             sent == <<Request("GET", "file", href)>>
         IN IF image.answer = "ConnectionError"
            THEN [sent |-> sent, written |-> {}, filename |-> filename,
                  error |-> "ConnectionError"]
            ELSE IF filename = <<>>
            THEN [sent |-> sent, written |-> {}, filename |-> filename,
                  error |-> "IsADirectoryError"]
            ELSE [sent |-> sent, written |-> {PathJoin(images_path, filename)},
                  filename |-> filename, error |-> "none"]

DownloadImage ==
    /\ pc = "image"
    /\ item <= Len(images)
    /\ LET try == TryImage(images[item])
       IN /\ http' = http \o try.sent
          /\ files' = files \cup try.written
          /\ log' = IF try.error = "none" THEN log
                    ELSE Append(log, LogLine(try.error, try.filename))
    /\ item' = item + 1
    /\ UNCHANGED <<pc, uncaught, settings, login_resp, dirs, total, progress, errors,
                   current_id, printed, pagina, ids, diags, bs, patients,
                   classes_path, idx, images, links, matrixes>>

ImagesDone ==
    /\ pc = "image"
    /\ item > Len(images)
    /\ images' = <<>>
    /\ item' = 1
    /\ pc' = AfterImages
    /\ UNCHANGED <<uncaught, settings, login_resp, http, dirs, files, log, total, progress,
                   errors, current_id, printed, pagina, ids, diags, bs, patients,
                   classes_path, idx, links, matrixes>>


(***************************************************************************)
(* _download_patient_matrixes                                              *)
(***************************************************************************)
Static6 == <<"s", "t", "a", "t", "i", "c">>

\* static_path if "static" in link["title"].lower() else dynamic_path
MatrixPathCaseSensitive(title) ==
    IF Contains(Static6, title) THEN static_path ELSE dynamic_path

MatrixPath(title) ==
    IF Contains(Static6, Lower(title)) THEN static_path ELSE dynamic_path

\* the list comprehension: it is evaluated before the loop and outside the
\* try block, link by link, the href before the title
MatrixesError(ls) ==
    IF \E i \in DOMAIN ls : ls[i].href = NoAttr \/ ls[i].title = NoAttr
    THEN LET i == CHOOSE j \in DOMAIN ls :
                    /\ ls[j].href = NoAttr \/ ls[j].title = NoAttr
                    /\ \A k \in 1..(j - 1) : ls[k].href # NoAttr /\ ls[k].title # NoAttr
         IN IF ls[i].href = NoAttr THEN Raised("KeyError", "matrix href")
            ELSE Raised("KeyError", "matrix title")
    ELSE NoError

Matrixes(ls) ==
    [i \in DOMAIN ls |-> [url |-> base_url \o DropFirst(2, ls[i].href),
                          path |-> MatrixPath(ls[i].title)]]

DownloadPatientMatrixes ==
    /\ pc = "matrixes"
    /\ dirs' = dirs \cup MakeDirs(static_path) \cup MakeDirs(dynamic_path)
    /\ \/ /\ pc' = "crashed"
          /\ uncaught' = Raised("AttributeError", "thermal heading")
          /\ UNCHANGED <<links, matrixes, item>>
       \/ \E ls \in SeqsUpTo(Links, MaxItems - Handled) :
            IF MatrixesError(ls) # NoError
               THEN /\ pc' = "crashed"
                    /\ uncaught' = MatrixesError(ls)
                    /\ UNCHANGED <<links, matrixes, item>>
               ELSE /\ links' = ls
                    /\ matrixes' = Matrixes(ls)
                    /\ item' = 1
                    /\ pc' = "matrix"
                    /\ UNCHANGED uncaught
    /\ UNCHANGED <<settings, login_resp, http, files, log, total, progress, errors,
                   current_id, printed, pagina, ids, diags, bs, patients,
                   classes_path, idx, images>>

\* the body of the try block for one matrix, given the answer to its url
TryMatrix(matrix, answer) ==
    IF ~HasSlash(matrix.url)
    THEN [sent |-> <<>>, written |-> {}, filename |-> None, error |-> "AttributeError"]
    ELSE LET filename == LastSegment(matrix.url)
             sent == <<Request("GET", "file", matrix.url)>>
         IN IF answer = "ConnectionError"
            THEN [sent |-> sent, written |-> {}, filename |-> filename,
                  error |-> "ConnectionError"]
            ELSE IF filename = <<>>
            THEN [sent |-> sent, written |-> {}, filename |-> filename,
                  error |-> "IsADirectoryError"]
            ELSE [sent |-> sent, written |-> {PathJoin(matrix.path, filename)},
                  filename |-> filename, error |-> "none"]

DownloadMatrix ==
    /\ pc = "matrix"
    /\ item <= Len(matrixes)
    /\ \E answer \in Answers :
         LET try == TryMatrix(matrixes[item], answer)
         IN /\ http' = http \o try.sent
            /\ files' = files \cup try.written
            /\ log' = IF try.error = "none" THEN log
                      ELSE Append(log, LogLine(try.error, try.filename))
    /\ item' = item + 1
    /\ UNCHANGED <<pc, uncaught, settings, login_resp, dirs, total, progress, errors,
                   current_id, printed, pagina, ids, diags, bs, patients,
                   classes_path, idx, images, links, matrixes>>

MatrixesDone ==
    /\ pc = "matrix"
    /\ item > Len(matrixes)
    /\ links' = <<>>
    /\ matrixes' = <<>>
    /\ item' = 1
    /\ pc' = "next"
    /\ UNCHANGED <<uncaught, settings, login_resp, http, dirs, files, log, total, progress,
                   errors, current_id, printed, pagina, ids, diags, bs, patients,
                   classes_path, idx, images>>

(***************************************************************************)
(* The program.                                                            *)
(***************************************************************************)
Next ==
    \/ Login
    \/ GetPatientsFails
    \/ GetPatientsPage
    \/ Paginate
    \/ GetClassesPath
    \/ ProcessPatient
    \/ NextPatient
    \/ Finish
    \/ DownloadPatientImages
    \/ DownloadImage
    \/ ImagesDone
    \/ DownloadPatientMatrixes
    \/ DownloadMatrix
    \/ MatrixesDone

Spec == Init /\ [][Next]_vars


(***************************************************************************)
(* Properties.                                                             *)
(***************************************************************************)
IsListing(r) == r.endpoint = "listing"
IsDetail(r) == r.endpoint = "detail"
ListingRequests == SelectSeq(http, IsListing)
DetailRequests == SelectSeq(http, IsDetail)

InFetchLoop == pc \in {"patient", "images", "image", "matrixes", "matrix", "next", "done"}

\* C3: when the login page carries the bad-credentials warning, run() has
\* exited: no request went to the listing or to a detail endpoint, and no
\* directory below the data directory and no file was made.
C3_LoginFailureHalts ==
    login_resp = "alert-warning" =>
        /\ pc = "exited"
        /\ ListingRequests = <<>>
        /\ DetailRequests = <<>>
        /\ dirs = MakeDirs(data_path)
        /\ files = {}
        /\ patients = <<>>

C3_Witness ==
    /\ login_resp = "alert-warning"
    /\ pc = "exited"
    /\ http = LoginRequests

\* the pagination texts of the model that carry the word "next" in some
\* letter case
TextsWithNext == {<<"1", " ", "N","e","x","t">>, <<"N","E","X","T">>}

C4_PagesInOrder ==
    /\ \A i \in DOMAIN ListingRequests : ListingRequests[i].arg = i
    /\ pc = "get_patients" => Len(ListingRequests) = pagina - 1
    /\ (pc = "pagination" \/ pc = "get_classes_path" \/ InFetchLoop)
          => Len(ListingRequests) = pagina

C4_LoopStep ==
    pc = "pagination" =>
        IF bs.pagination \in TextsWithNext
        THEN pc' = "get_patients" /\ pagina' = pagina + 1
        ELSE IF bs.pagination = NoPagination
        THEN pc' = "crashed"
        ELSE pc' = "get_classes_path" /\ pagina' = pagina

\* C4: the listing requests are those of pages 1, 2, 3, ... in order, one
\* per page; after a page the loop goes on to the next page if the
\* pagination text of that page carries "next", and returns if it does not
\* (so the loop returns after exactly N requests when page N is the first
\* without "next", and does not return while every page carries it).
C4_PaginationStopsIffNoNext ==
    [][C4_PagesInOrder /\ C4_PagesInOrder' /\ C4_LoopStep]_vars

C4_Witness ==
    /\ pc = "get_classes_path"
    /\ pagina = 3
    /\ Len(ListingRequests) = 3

\* C5 as stated: the mapping returned has as many entries as the listing
\* pages had data rows.
C5_OneEntryPerRow ==
    pc = "get_classes_path" => Len(patients) = Len(ids)

\* C5 amended: every row's id is a key of the mapping returned, every entry
\* is the (id, class) of a row, and the mapping has as many entries as the
\* rows have distinct ids: as many as there are rows exactly when no id is
\* listed twice.
C5_OneEntryPerDistinctId ==
    pc = "get_classes_path" =>
        /\ Len(ids) = Len(diags)
        /\ DictKeys(patients) = Range(ids)
        /\ Len(patients) = Cardinality(Range(ids))
        /\ \A k \in DOMAIN patients :
             \E i \in DOMAIN ids : <<ids[i], diags[i]>> = patients[k]
        /\ (Len(patients) = Len(ids))
             <=> (\A i, j \in DOMAIN ids : ids[i] = ids[j] => i = j)

C5_Witness ==
    /\ pc = "get_classes_path"
    /\ Len(ids) = 3
    /\ Len(patients) = 2

\* the patient of entry k of patients has been taken up by the for loop
Started(k) ==
    \/ k < idx
    \/ k = idx /\ pc \in {"images", "image", "matrixes", "matrix", "next", "crashed"}

\* C8: an id listed more than once is mapped to the class of its last row,
\* and every patient the loop has taken up was requested exactly once and
\* has its directory below the directory of that class.
C8_LastOccurrenceWins ==
    /\ pc = "get_classes_path" =>
         \A i \in DOMAIN ids :
            (\A j \in DOMAIN ids : j > i => ids[j] # ids[i])
               => DictGet(patients, ids[i]) = diags[i]
    /\ \A k \in DOMAIN patients :
         LET asked == {i \in DOMAIN DetailRequests :
                          DetailRequests[i].arg = patients[k][1]}
         IN /\ Cardinality(asked) = IF Started(k) THEN 1 ELSE 0
            /\ Started(k) =>
                 PathJoin(PathJoin(data_path, patients[k][2]), patients[k][1]) \in dirs

C8_Witness ==
    /\ pc = "get_classes_path"
    /\ \E i, j \in DOMAIN ids : i < j /\ ids[i] = ids[j] /\ diags[i] # diags[j]
    /\ \E i \in DOMAIN ids : ids[i] \notin {ids[1]}

C9_Step ==
    /\ pc # "crashed"
    /\ pc' = "pagination" =>
          /\ bs'.table
          /\ \A i \in DOMAIN bs'.rows : bs'.rows[i].cells = 6
    /\ (pc = "get_patients" /\ pc' = "crashed") =>
          /\ patients' = <<>>
          /\ total' = 0
          /\ DetailRequests' = <<>>
          /\ log' = log
    /\ (pc = "patient" /\ pc' = "crashed") =>
          /\ uncaught'.at = "detail"
          /\ log' = log
          /\ files' = files
          /\ idx' = idx
          /\ Len(DetailRequests') = idx

\* C9: nothing follows an uncaught exception; the enumeration goes on only
\* with a page that has the table, and when it fails no patient set was
\* returned and no patient fetched; when the run ends at the request of a
\* patient's detail page, nothing was logged or written for it and no later
\* patient was requested.
C9_UnhandledFailuresCrash == [][C9_Step]_vars

C9_Witness ==
    /\ pc = "crashed"
    /\ uncaught.at = "detail"
    /\ idx < Len(patients)
    /\ Len(DetailRequests) = idx


\* the titles of the model that contain "static" in some letter case
StaticTitles == {<<"M","a","t","r","i","x"," ","S","t","a","t","i","c">>}

ExpectedDir(title) ==
    IF title \in StaticTitles THEN static_path ELSE dynamic_path

C7_Step ==
    (pc = "matrix" /\ item <= Len(matrixes)) =>
        /\ matrixes[item].path = ExpectedDir(links[item].title)
        /\ files' \ files \subseteq
             {PathJoin(ExpectedDir(links[item].title),
                       LastSegment(links[item].href))}

\* C7: the step that downloads a matrix link writes at most one file, and
\* writes it into the Static directory of the patient when the title of the
\* link contains "static" in any letter case and into the Dynamic directory
\* of the patient when it does not.
C7_StaticOrDynamic == [][C7_Step]_vars

C7_Witness ==
    /\ pc = "matrix"
    /\ item = 3
    /\ links[1].title \in StaticTitles
    /\ links[2].title \notin StaticTitles
    /\ files = {PathJoin(static_path, <<"m">>), PathJoin(dynamic_path, <<"m">>)}

ItemFailures == {"matrix href", "matrix title"}

C1_Step ==
    /\ (pc = "image" /\ item <= Len(images)) =>
          /\ pc' = "image" /\ item' = item + 1
          /\ \/ log' = log
             \/ /\ Len(log') = Len(log) + 1
                /\ log'[Len(log')].patient = current_id
    /\ (pc = "matrix" /\ item <= Len(matrixes)) =>
          /\ pc' = "matrix" /\ item' = item + 1
          /\ \/ log' = log
             \/ /\ Len(log') = Len(log) + 1
                /\ log'[Len(log')].patient = current_id
    /\ pc' = "crashed" => uncaught'.at \notin ItemFailures

\* C1: a failure on one image or one matrix link is caught: the step logs
\* one line with the id of the current patient and the loop goes on to the
\* next item; no such failure ends the run.
C1_PerItemFailureCaught == [][C1_Step]_vars

\* the claim's two kinds of image element: one whose link is there and is
\* answered with the file, and a malformed one (no href, or answered 404)
Malformed(image) == image.href = NoAttr \/ image.answer = "404"
WellFormed(image) ==
    /\ image.href # NoAttr
    /\ image.answer = "200"
    /\ LastSegment(base_url \o DropFirst(2, image.href)) # <<>>

FilesIn(dir) ==
    {f \in files : Len(f) = Len(dir) + 2 /\ SubSeq(f, 1, Len(dir) + 1) = dir \o <<"/">>}

\* C2: when the loop over the k image elements of a patient is over, m of
\* them malformed and the others with links to different files, the images
\* directory of the patient holds k - m files and report.log holds m lines
\* for the patient.
C2_FilesAndLogLines ==
    (/\ pc = "image"
     /\ item > Len(images)
     /\ \A i \in DOMAIN images : Malformed(images[i]) \/ WellFormed(images[i])
     /\ \A i, j \in DOMAIN images :
          (WellFormed(images[i]) /\ WellFormed(images[j]) /\ i # j)
             => images[i].href # images[j].href)
    => LET m == Cardinality({i \in DOMAIN images : Malformed(images[i])})
       IN /\ Cardinality(FilesIn(images_path)) = Len(images) - m
          /\ Cardinality({i \in DOMAIN log : log[i].patient = current_id}) = m

OutputDir(k) == PathJoin(PathJoin(data_path, patients[k][2]), patients[k][1])

C6_State ==
    InFetchLoop =>
        /\ \A k \in DOMAIN patients :
             /\ patients[k][2] \in DOMAIN classes_path
             /\ classes_path[patients[k][2]] \in dirs
        /\ \A j, k \in DOMAIN patients : j # k => OutputDir(j) # OutputDir(k)

\* C6: from the first patient on, the directory of every patient's class
\* exists, the class-directory mapping stays as it is, and two different
\* patients have different output directories data/<class>/<id>.
C6_ClassDirsAndDistinctPaths ==
    [][C6_State' /\ (InFetchLoop => classes_path' = classes_path)]_vars

\* C10: what _print_progress shows: as many errors as report.log has lines,
\* and a progress index from 1 to the number of patients.
C10_ShownErrorsAreLogLines ==
    [][progress' # progress =>
          /\ printed'.errors = Len(log)
          /\ 1 <= printed'.progress
          /\ printed'.progress <= printed'.total]_vars

====
